---- MODULE Spec2Model ----
(***************************************************************************)
(* A model of omniduct/databases/_namespaces.py: the ParsedNamespaces      *)
(* value type, its from_name classmethod (tokenizer, right-alignment,      *)
(* defaulting pass) and its accessors (name, namespaces, parent, as_dict). *)
(*                                                                         *)
(* Strings are sequences of one-character strings.  Python objects that    *)
(* are shared by reference (the OrderedDict an instance keeps in __names)  *)
(* live in `heap`; an instance holds the index of its dict, so aliasing    *)
(* between instances and the caller is visible.                            *)
(***************************************************************************)
EXTENDS Integers, Sequences, FiniteSets, TLC

VARIABLES
    heap,   \* sequence of OrderedDicts: heap[o] is the content of dict object o
    insts,  \* sequence of ParsedNamespaces instances, in order of construction
    held,   \* the dict object the caller got from its last as_dict call (0: none)
    call,   \* the last operation and its arguments
    ret     \* what the last operation returned or raised

vars == <<heap, insts, held, call, ret>>

----------------------------------------------------------------------------
(* Bounds and input sets *)

MaxNameLen == 5        \* raw names of the tokenizer runs: at most this many characters
MaxComponents == 3     \* raw names of the resolver runs: at most this many components
MaxInst == 2           \* instances alive in a lifecycle run

\* The grave accent U+0060 of the pattern on line 60; the TLA+ lexer admits no
\* grave accent in a string, so the character is written by name.
BackTick == "GRAVE"
Chars == {"a", ".", "/", "\"", BackTick}
QuoteChars == {"\"", BackTick}
Separators == {".", "/"}
DefaultQuoteChar == "\""
DefaultSeparator == "."

NamespaceIds == {"a", "b", "c"}
DefaultVals == {<<>>, <<"d">>}

\* Python's None; no string of Chars equals it.
None == <<"None">>

\* bool(v) for v a str or None
Truthy(v) == v # None /\ v # <<>>

StringsUpTo(n) == UNION {[1..k -> Chars] : k \in 0..n}

\* Schemas: the sequences of distinct namespace identifiers.
Schemas ==
    {s \in UNION {[1..k -> NamespaceIds] : k \in 0..Cardinality(NamespaceIds)} :
        \A i, j \in DOMAIN s : i # j => s[i] # s[j]}

\* The schemas <<>>, <<a>>, <<a, b>>, <<a, b, c>>.
PrefixSchemas == {SubSeq(<<"a", "b", "c">>, 1, k) : k \in 0..3}

NoDefaults == <<>>
Defaults == UNION {[D -> DefaultVals] : D \in SUBSET NamespaceIds}

----------------------------------------------------------------------------
(* collections.OrderedDict: a sequence of <<key, value>> pairs *)

DictKeys(d) == [i \in 1..Len(d) |-> d[i][1]]
DictValues(d) == [i \in 1..Len(d) |-> d[i][2]]
HasKey(d, k) == \E i \in 1..Len(d) : d[i][1] = k

\* d.get(k)
DictGet(d, k) ==
    IF HasKey(d, k) THEN d[CHOOSE i \in 1..Len(d) : d[i][1] = k][2] ELSE None

\* d[k] = v: an existing key keeps its place, a new key goes last
DictSet(d, k, v) ==
    IF HasKey(d, k)
    THEN [i \in 1..Len(d) |-> IF d[i][1] = k THEN <<k, v>> ELSE d[i]]
    ELSE Append(d, <<k, v>>)

\* del d[k]
DictDel(d, k) == SelectSeq(d, LAMBDA kv : kv[1] # k)

Reverse(s) == [i \in 1..Len(s) |-> s[Len(s) + 1 - i]]

----------------------------------------------------------------------------
(* from_name: the tokenizer (lines 59-66) *)

\* First alternative of namespace_matcher, [^{sep}{qc}]+, tried at position i:
\* the last position of the maximal run of characters that are neither the
\* separator nor the quote character (i - 1 when name[i] is one of them).
RECURSIVE UnquotedRunEnd(_, _, _, _)
UnquotedRunEnd(name, i, quote_char, separator) ==
    IF i <= Len(name) /\ name[i] \notin {separator, quote_char}
    THEN UnquotedRunEnd(name, i + 1, quote_char, separator)
    ELSE i - 1

\* The characters the body of a quoted span may hold: the pattern of line 60
\* writes the class as "anything but a grave accent", whatever quote_char is.
QuotedBodyChar(c, quote_char) == c # BackTick

\* Second alternative, {qc}([^`]*?){qc}, tried at position i (name[i] is the
\* quote character): the lazy body stops at the first quote character after
\* i; the position of that closing quote, or 0 when the alternative fails.
RECURSIVE QuotedSpanEnd(_, _, _)
QuotedSpanEnd(name, j, quote_char) ==
    IF j > Len(name) THEN 0
    ELSE IF name[j] = quote_char THEN j
    ELSE IF QuotedBodyChar(name[j], quote_char)
         THEN QuotedSpanEnd(name, j + 1, quote_char)
         ELSE 0

\* namespace_matcher.findall(name) from position i, each match's two groups
\* joined: non-overlapping matches left to right, a position where neither
\* alternative matches is skipped.
RECURSIVE FindAll(_, _, _, _)
FindAll(name, i, quote_char, separator) ==
    IF i > Len(name) THEN <<>>
    ELSE LET u == UnquotedRunEnd(name, i, quote_char, separator)
             q == IF name[i] = quote_char
                  THEN QuotedSpanEnd(name, i + 1, quote_char) ELSE 0
         IN  IF u >= i
             THEN <<SubSeq(name, i, u)>> \o FindAll(name, u + 1, quote_char, separator)
             ELSE IF q # 0
             THEN <<SubSeq(name, i + 1, q - 1)>> \o FindAll(name, q + 1, quote_char, separator)
             ELSE FindAll(name, i + 1, quote_char, separator)

\* names = [...] if name else []   (line 66)
Tokenize(name, quote_char, separator) ==
    IF name # <<>> THEN FindAll(name, 1, quote_char, separator) ELSE <<>>

----------------------------------------------------------------------------
(* from_name: overflow check, right-alignment, defaulting pass *)

\* Mutation of TooManyNamespaces: the comparison off by one.
TooManyNamespacesOffByOne(names, namespaces) == Len(names) >= Len(namespaces)

\* len(names) > len(namespaces)   (line 67)
TooManyNamespaces(names, namespaces) == Len(names) > Len(namespaces)

\* The list comprehension of lines 74-75 over namespaces[::-1]: each namespace,
\* least general first, takes names.pop() while names is not empty, else None.
RECURSIVE PopEach(_, _)
PopEach(reversed, names) ==
    IF reversed = <<>> THEN <<>>
    ELSE IF names # <<>>
         THEN <<<<Head(reversed), names[Len(names)]>>>>
              \o PopEach(Tail(reversed), SubSeq(names, 1, Len(names) - 1))
         ELSE <<<<Head(reversed), None>>>> \o PopEach(Tail(reversed), names)

\* Mutation of RightAlign: the names go to the most general namespaces.
LeftAlign(names, namespaces) ==
    [i \in 1..Len(namespaces) |->
        <<namespaces[i], IF i <= Len(names) THEN names[i] ELSE None>>]

\* parsed = OrderedDict(reversed([...]))   (lines 73-76)
RightAlign(names, namespaces) == Reverse(PopEach(Reverse(namespaces), names))

\* The loop of lines 82-86 over the namespaces still to visit, least general
\* first: an unresolved namespace takes its default; the first unresolved
\* namespace without a default ends the loop.
RECURSIVE DefaultingLoop(_, _, _)
DefaultingLoop(parsed, reversed, defaults) ==
    IF reversed = <<>> THEN parsed
    ELSE LET namespace == Head(reversed)
         IN  IF ~Truthy(DictGet(parsed, namespace)) /\ namespace \in DOMAIN defaults
             THEN DefaultingLoop(DictSet(parsed, namespace, defaults[namespace]),
                                 Tail(reversed), defaults)
             ELSE IF ~Truthy(DictGet(parsed, namespace))
             THEN parsed
             ELSE DefaultingLoop(parsed, Tail(reversed), defaults)

\* Mutation of DefaultingPass: an unresolved namespace without a default is
\* skipped and the loop goes on.
RECURSIVE DefaultingLoopNoBreak(_, _, _)
DefaultingLoopNoBreak(parsed, reversed, defaults) ==
    IF reversed = <<>> THEN parsed
    ELSE LET namespace == Head(reversed)
         IN  IF ~Truthy(DictGet(parsed, namespace)) /\ namespace \in DOMAIN defaults
             THEN DefaultingLoopNoBreak(DictSet(parsed, namespace, defaults[namespace]),
                                        Tail(reversed), defaults)
             ELSE DefaultingLoopNoBreak(parsed, Tail(reversed), defaults)

DefaultingPassNoBreak(parsed, namespaces, defaults) ==
    DefaultingLoopNoBreak(parsed, Reverse(namespaces), defaults)

DefaultingPass(parsed, namespaces, defaults) ==
    DefaultingLoop(parsed, Reverse(namespaces), defaults)

\* set(name.namespaces).difference(namespaces)   (line 49)
ExtraNamespaces(d, namespaces) ==
    {DictKeys(d)[i] : i \in 1..Len(d)} \ {namespaces[i] : i \in 1..Len(namespaces)}

----------------------------------------------------------------------------
(* The instance: __init__, namespaces, name *)

\* __init__ without the namespaces argument, as from_name and parent call it:
\* the instance keeps the very dict object it was given (line 113).
NewInstance(names, quote_char, separator) ==
    [names |-> names, quote_char |-> quote_char, separator |-> separator]

\* The property namespaces: list(self.__names)
Namespaces(d) == DictKeys(d)

RECURSIVE Join(_, _)
Join(glue, strs) ==
    IF strs = <<>> THEN <<>>
    ELSE IF Len(strs) = 1 THEN strs[1]
    ELSE strs[1] \o glue \o Join(glue, Tail(strs))

\* The text joined between two names: "{qc}.{qc}".format(qc=...)   (line 145)
NameGlue(quote_char, separator) == <<quote_char, ".", quote_char>>

\* The property name (lines 136-147)
Name(d, quote_char, separator) ==
    LET names == SelectSeq(DictValues(d), Truthy)
    IN  IF Len(names) = 0 THEN <<>>
        ELSE <<quote_char>> \o Join(NameGlue(quote_char, separator), names)
             \o <<quote_char>>

----------------------------------------------------------------------------
(* State machine *)

NoCall ==
    [op |-> "none", src |-> 0, name |-> None, namespaces |-> <<>>,
     quote_char |-> DefaultQuoteChar, separator |-> DefaultSeparator,
     defaults |-> NoDefaults, key |-> "", value |-> None]

\* out: "ok" or the exception raised; inst: the instance returned (0: none);
\* val: the value returned by an accessor; pre: the local `parsed` of
\* from_name as it stood before the loop of line 82.
NoRet == [out |-> "ok", inst |-> 0, val |-> None, pre |-> <<>>]

Init ==
    /\ heap = <<>>
    /\ insts = <<>>
    /\ held = 0
    /\ call = NoCall
    /\ ret = NoRet

\* ParsedNamespaces.from_name(name, namespaces, quote_char, separator, defaults)
\* with name a str (lines 46, 58-76, 82-88)
FromNameStr(name, namespaces, quote_char, separator, defaults) ==
    LET names == Tokenize(name, quote_char, separator)
        pre == RightAlign(names, namespaces)
        parsed == DefaultingPass(pre, namespaces, defaults)
    IN  /\ call' = [NoCall EXCEPT !.op = "from_name", !.name = name,
                                  !.namespaces = namespaces,
                                  !.quote_char = quote_char,
                                  !.separator = separator,
                                  !.defaults = defaults]
        /\ IF TooManyNamespaces(names, namespaces)
           THEN /\ ret' = [NoRet EXCEPT !.out = "ValueError"]
                /\ UNCHANGED <<heap, insts>>
           ELSE /\ heap' = Append(heap, parsed)
                /\ insts' = Append(insts, NewInstance(Len(heap) + 1, quote_char, separator))
                /\ ret' = [NoRet EXCEPT !.inst = Len(insts) + 1, !.pre = pre]
        /\ UNCHANGED held

\* ParsedNamespaces.from_name(name, ...) with name the instance p
\* (lines 46, 48-56, 82-88): parsed is the dict object name.as_dict() returns.
FromNameParsed(p, namespaces, quote_char, separator, defaults) ==
    LET o == insts[p].names
    IN  /\ call' = [NoCall EXCEPT !.op = "from_name", !.src = p,
                                  !.namespaces = namespaces,
                                  !.quote_char = quote_char,
                                  !.separator = separator,
                                  !.defaults = defaults]
        /\ IF ExtraNamespaces(heap[o], namespaces) # {}
           THEN /\ ret' = [NoRet EXCEPT !.out = "ValueError"]
                /\ UNCHANGED <<heap, insts>>
           ELSE /\ heap' = [heap EXCEPT ![o] = DefaultingPass(@, namespaces, defaults)]
                /\ insts' = Append(insts, NewInstance(o, quote_char, separator))
                /\ ret' = [NoRet EXCEPT !.inst = Len(insts) + 1, !.pre = heap[o]]
        /\ UNCHANGED held

\* p.parent (lines 149-158): a copy of the dict with its last item popped;
\* popitem on an empty dict raises KeyError.
Parent(p) ==
    LET d == heap[insts[p].names]
    IN  /\ call' = [NoCall EXCEPT !.op = "parent", !.src = p]
        /\ IF d = <<>>
           THEN /\ ret' = [NoRet EXCEPT !.out = "KeyError"]
                /\ UNCHANGED <<heap, insts>>
           ELSE /\ heap' = Append(heap, SubSeq(d, 1, Len(d) - 1))
                /\ insts' = Append(insts, NewInstance(Len(heap) + 1,
                                       insts[p].quote_char, insts[p].separator))
                /\ ret' = [NoRet EXCEPT !.inst = Len(insts) + 1]
        /\ UNCHANGED held

\* p.as_dict() (lines 160-162): the caller gets the dict object itself.
AsDict(p) ==
    /\ call' = [NoCall EXCEPT !.op = "as_dict", !.src = p]
    /\ ret' = [NoRet EXCEPT !.val = insts[p].names]
    /\ held' = insts[p].names
    /\ UNCHANGED <<heap, insts>>

\* p.name
GetName(p) ==
    /\ call' = [NoCall EXCEPT !.op = "name", !.src = p]
    /\ ret' = [NoRet EXCEPT !.val = Name(heap[insts[p].names],
                                         insts[p].quote_char, insts[p].separator)]
    /\ UNCHANGED <<heap, insts, held>>

\* p.namespaces
GetNamespaces(p) ==
    /\ call' = [NoCall EXCEPT !.op = "namespaces", !.src = p]
    /\ ret' = [NoRet EXCEPT !.val = Namespaces(heap[insts[p].names])]
    /\ UNCHANGED <<heap, insts, held>>

\* The caller runs d[key] = value on the mapping as_dict returned.
CallerSetItem(key, value) ==
    /\ held # 0
    /\ call' = [NoCall EXCEPT !.op = "setitem", !.key = key, !.value = value]
    /\ ret' = NoRet
    /\ heap' = [heap EXCEPT ![held] = DictSet(@, key, value)]
    /\ UNCHANGED <<insts, held>>

\* The caller runs del d[key] on the mapping as_dict returned.
CallerDelItem(key) ==
    /\ held # 0
    /\ HasKey(heap[held], key)
    /\ call' = [NoCall EXCEPT !.op = "delitem", !.key = key]
    /\ ret' = NoRet
    /\ heap' = [heap EXCEPT ![held] = DictDel(@, key)]
    /\ UNCHANGED <<insts, held>>

----------------------------------------------------------------------------
(* Tokenizer runs: one raw name is parsed, the instance's name is read, and  *)
(* that name is parsed again with the instance's own schema, quote character *)
(* and separator.                                                            *)

RawNames == StringsUpTo(MaxNameLen)

ParseRaw ==
    /\ call.op = "none"
    /\ \E name \in RawNames, namespaces \in PrefixSchemas,
          quote_char \in QuoteChars, separator \in Separators :
           FromNameStr(name, namespaces, quote_char, separator, NoDefaults)

RenderName ==
    /\ Len(insts) = 1
    /\ call.op = "from_name"
    /\ GetName(1)

ReparseName ==
    /\ Len(insts) = 1
    /\ call.op = "name"
    /\ FromNameStr(ret.val, Namespaces(heap[insts[1].names]),
                   insts[1].quote_char, insts[1].separator, NoDefaults)

NextParse == ParseRaw \/ RenderName \/ ReparseName

SpecParse == Init /\ [][NextParse]_vars

----------------------------------------------------------------------------
(* Resolver runs: one call of from_name with defaults, on a raw name or on   *)
(* an instance that an earlier call without defaults returned.  Quote        *)
(* character and separator are the defaults of the signature (line 24).      *)

\* A component as written in a raw name: the unquoted a, or a quoted empty span.
ComponentChoices == {<<"a">>, <<"\"", "\"">>}

ShortNames ==
    {Join(<<".">>, cs) : cs \in UNION {[1..k -> ComponentChoices] : k \in 0..MaxComponents}}

ResolveStr ==
    /\ call.op = "none"
    /\ \E name \in ShortNames, namespaces \in Schemas, defaults \in Defaults :
           FromNameStr(name, namespaces, DefaultQuoteChar, DefaultSeparator, defaults)

ResolveParsed ==
    /\ Len(insts) = 1
    /\ call.src = 0
    /\ call.defaults = NoDefaults
    /\ \E namespaces \in Schemas, defaults \in Defaults :
           FromNameParsed(1, namespaces, DefaultQuoteChar, DefaultSeparator, defaults)

NextResolve == ResolveStr \/ ResolveParsed

SpecResolve == Init /\ [][NextResolve]_vars

----------------------------------------------------------------------------
(* Lifecycle runs: instances are built and derived from one another, read,   *)
(* and the caller changes the mappings as_dict handed out.                   *)

LifeIds == {"a", "b"}
LifeNames == {<<>>, <<"a">>, <<"a", ".", "a">>}
LifeSchemas == {s \in Schemas : s # <<>> /\ \A i \in DOMAIN s : s[i] \in LifeIds}
LifeDefaults ==
    {d \in Defaults : DOMAIN d \subseteq LifeIds /\ \A k \in DOMAIN d : d[k] = <<"d">>}
CallerVals == {<<"m">>}

LifeFromNameStr ==
    /\ Len(insts) < MaxInst
    /\ \E name \in LifeNames, namespaces \in LifeSchemas, defaults \in LifeDefaults :
           FromNameStr(name, namespaces, DefaultQuoteChar, DefaultSeparator, defaults)

LifeFromNameParsed ==
    /\ Len(insts) < MaxInst
    /\ \E p \in 1..Len(insts), namespaces \in LifeSchemas, defaults \in LifeDefaults :
           FromNameParsed(p, namespaces, DefaultQuoteChar, DefaultSeparator, defaults)

LifeParent ==
    /\ Len(insts) < MaxInst
    /\ \E p \in 1..Len(insts) : Parent(p)

LifeAsDict == \E p \in 1..Len(insts) : AsDict(p)

LifeGetName == \E p \in 1..Len(insts) : GetName(p)

LifeGetNamespaces == \E p \in 1..Len(insts) : GetNamespaces(p)

LifeSetItem == \E key \in LifeIds, value \in CallerVals : CallerSetItem(key, value)

LifeDelItem == \E key \in LifeIds : CallerDelItem(key)

Next ==
    \/ LifeFromNameStr
    \/ LifeFromNameParsed
    \/ LifeParent
    \/ LifeAsDict
    \/ LifeGetName
    \/ LifeGetNamespaces
    \/ LifeSetItem
    \/ LifeDelItem

Spec == Init /\ [][Next]_vars

----------------------------------------------------------------------------
(* Properties *)

\* The last call was from_name on a raw string.
StrCall == call.op = "from_name" /\ call.src = 0

\* The dict of the instance the last call returned.
Returned == heap[insts[ret.inst].names]

\* What the accessors of instance i show.
View(h, ins, i) ==
    [as_dict |-> h[ins[i].names],
     name |-> Name(h[ins[i].names], ins[i].quote_char, ins[i].separator),
     namespaces |-> Namespaces(h[ins[i].names])]

\* A raw name written as non-empty unquoted components joined by the separator
\* (the empty name: no component).
UnquotedJoin(name, quote_char, separator) ==
    /\ \A i \in 1..Len(name) : name[i] # quote_char
    /\ name # <<>> => name[1] # separator /\ name[Len(name)] # separator
    /\ \A i \in 1..(Len(name) - 1) : ~(name[i] = separator /\ name[i + 1] = separator)

\* The components of such a name, in the order written.
RECURSIVE Components(_, _)
Components(name, separator) ==
    IF name = <<>> THEN <<>>
    ELSE IF \E i \in 1..Len(name) : name[i] = separator
    THEN LET i == CHOOSE i \in 1..Len(name) :
                    name[i] = separator /\ \A j \in 1..(i - 1) : name[j] # separator
         IN  <<SubSeq(name, 1, i - 1)>> \o Components(SubSeq(name, i + 1, Len(name)), separator)
    ELSE <<name>>

C1Case ==
    /\ StrCall
    /\ call.defaults = NoDefaults
    /\ UnquotedJoin(call.name, call.quote_char, call.separator)
    /\ Len(Components(call.name, call.separator)) <= Len(call.namespaces)

\* C1 (right-alignment): from_name without defaults on a raw name of k <= n
\* non-empty unquoted components joined by the separator, with a schema of n
\* namespaces, returns an instance whose last k namespaces hold the k components
\* in the order written and whose first n - k namespaces are None.
C1_RightAlignment ==
    C1Case =>
        LET comps == Components(call.name, call.separator)
            n == Len(call.namespaces)
            k == Len(comps)
        IN  /\ ret.out = "ok"
            /\ Len(Returned) = n
            /\ \A j \in 1..n :
                   Returned[j] = <<call.namespaces[j],
                                   IF j <= n - k THEN None ELSE comps[j - (n - k)]>>

\* A partial name: two components of different text against a schema of three.
C1_Witness ==
    /\ C1Case
    /\ ret.out = "ok"
    /\ Len(call.namespaces) = 3
    /\ Len(Components(call.name, call.separator)) = 2
    /\ Components(call.name, call.separator)[1] # Components(call.name, call.separator)[2]

Unresolved(d, namespace) == ~Truthy(DictGet(d, namespace))

\* The position at which the defaulting pass halts: the least general namespace
\* that is unresolved before the pass and has no default (0: the pass never halts).
HaltAt(pre, namespaces, defaults) ==
    LET halts == {j \in 1..Len(namespaces) :
                      Unresolved(pre, namespaces[j]) /\ namespaces[j] \notin DOMAIN defaults}
    IN  IF halts = {} THEN 0 ELSE CHOOSE j \in halts : \A m \in halts : m <= j

\* C2 (defaulting pass): scanning from the most specific namespace to the most
\* general, every unresolved (None or empty) namespace with a default receives
\* it, resolved namespaces are kept; at the first unresolved namespace without a
\* default the pass halts, and that namespace and every more general one keep
\* what they had, default or not.
C2_DefaultingPass ==
    (call.op = "from_name" /\ ret.out = "ok") =>
        LET ns == call.namespaces
            pre == ret.pre
            h == HaltAt(pre, ns, call.defaults)
        IN  \A j \in 1..Len(ns) :
                /\ (j > h /\ Unresolved(pre, ns[j])) =>
                       /\ HasKey(Returned, ns[j])
                       /\ DictGet(Returned, ns[j]) = call.defaults[ns[j]]
                /\ (j > h /\ ~Unresolved(pre, ns[j])) =>
                       DictGet(Returned, ns[j]) = DictGet(pre, ns[j])
                /\ j <= h =>
                       /\ HasKey(Returned, ns[j]) = HasKey(pre, ns[j])
                       /\ DictGet(Returned, ns[j]) = DictGet(pre, ns[j])

\* A pass that applies the default of the most specific namespace, halts at the
\* next one, and leaves the most general one unset although it has a default.
C2_Witness ==
    /\ call.op = "from_name"
    /\ ret.out = "ok"
    /\ Len(call.namespaces) = 3
    /\ HaltAt(ret.pre, call.namespaces, call.defaults) = 2
    /\ Unresolved(ret.pre, call.namespaces[3])
    /\ DictGet(Returned, call.namespaces[3]) = <<"d">>
    /\ call.namespaces[1] \in DOMAIN call.defaults
    /\ call.defaults[call.namespaces[1]] = <<"d">>
    /\ Unresolved(Returned, call.namespaces[1])

FullyResolved(d, quote_char) ==
    \A i \in 1..Len(d) :
        /\ Truthy(d[i][2])
        /\ \A j \in 1..Len(d[i][2]) : d[i][2][j] # quote_char

\* C3 (round trip): for an instance p whose namespaces all hold a non-empty
\* value without the quote character, from_name(p.name, p.namespaces) with p's
\* quote character and separator succeeds and returns the values of p.
C3_RoundTrip ==
    (/\ StrCall
     /\ Len(insts) >= 1
     /\ FullyResolved(heap[insts[1].names], insts[1].quote_char)
     /\ call.name = View(heap, insts, 1).name
     /\ call.namespaces = View(heap, insts, 1).namespaces
     /\ call.quote_char = insts[1].quote_char
     /\ call.separator = insts[1].separator
     /\ call.defaults = NoDefaults)
    => /\ ret.out = "ok"
       /\ Returned = heap[insts[1].names]

\* C4 (schema keys): the instance a successful from_name returns has exactly
\* the namespaces of the schema supplied, in its order, for a raw name and for
\* an instance whose namespaces are a subset of the schema.
C4_SchemaKeys ==
    (call.op = "from_name" /\ ret.out = "ok") => Namespaces(Returned) = call.namespaces

\* C5 (immutability): an operation that takes an instance as input (from_name
\* on it, parent, name, namespaces) leaves the mapping, the key order and the
\* name of every existing instance as they were.
C5_Immutability ==
    [][(\/ call'.op \in {"parent", "name", "namespaces"}
        \/ (call'.op = "from_name" /\ call'.src # 0))
       => \A i \in 1..Len(insts) : View(heap', insts', i) = View(heap, insts, i)]_vars

\* C6 (as_dict isolation): two successive as_dict calls return equal mappings,
\* and a change the caller makes to a returned mapping (a key set, added or
\* removed) changes nothing of what as_dict, name and namespaces return.
C6_AsDictIsolation ==
    [][/\ (call.op = "as_dict" /\ call'.op = "as_dict" /\ call'.src = call.src)
           => heap'[ret'.val] = heap[ret.val]
       /\ call'.op \in {"setitem", "delitem"}
           => \A i \in 1..Len(insts) : View(heap', insts', i) = View(heap, insts, i)]_vars

\* C7 (name rendering): name is the empty string when no namespace holds a
\* non-empty value, and otherwise the non-empty values in schema order, each
\* wrapped in the quote character, joined by the instance's separator.
C7_NameRendering ==
    call.op = "name" =>
        LET p == insts[call.src]
            values == SelectSeq(DictValues(heap[p.names]), Truthy)
        IN  ret.val =
                IF values = <<>> THEN <<>>
                ELSE <<p.quote_char>>
                     \o Join(<<p.quote_char, p.separator, p.quote_char>>, values)
                     \o <<p.quote_char>>

\* C8 (overflow): from_name on a raw name raises ValueError exactly when the
\* name tokenizes to more components than the schema has namespaces; when it
\* raises no instance is returned, and otherwise an instance is returned.
C8_Overflow ==
    StrCall =>
        LET k == Len(Tokenize(call.name, call.quote_char, call.separator))
            n == Len(call.namespaces)
        IN  /\ ret.out = "ValueError" <=> k > n
            /\ ret.out = "ValueError" => ret.inst = 0
            /\ k <= n => ret.out = "ok" /\ ret.inst \in 1..Len(insts)

\* One component too many for a schema that is not empty.
C8_Witness ==
    /\ StrCall
    /\ ret.out = "ValueError"
    /\ Len(call.namespaces) = 2
    /\ Len(Tokenize(call.name, call.quote_char, call.separator)) = 3

\* Namespace j of the last from_name call took its value from defaults.
TakenFromDefaults(j) ==
    LET namespace == call.namespaces[j]
    IN  /\ Unresolved(ret.pre, namespace)
        /\ namespace \in DOMAIN call.defaults
        /\ HasKey(Returned, namespace)
        /\ DictGet(Returned, namespace) = call.defaults[namespace]
        /\ (~HasKey(ret.pre, namespace)
            \/ DictGet(ret.pre, namespace) # DictGet(Returned, namespace))

\* C9 (default only under a resolved suffix): when a namespace took its value
\* from defaults (empty defaults allowed), every more specific namespace of
\* the schema holds a non-empty value in the result.
C9_ResolvedSuffix ==
    (call.op = "from_name" /\ ret.out = "ok") =>
        \A j \in 1..Len(call.namespaces) :
            TakenFromDefaults(j) =>
                \A m \in (j + 1)..Len(call.namespaces) :
                    Truthy(DictGet(Returned, call.namespaces[m]))

\* C10 (quoted span): a raw name quote_char + c + quote_char, c without the
\* quote character, tokenizes to the one component c: with a schema of one
\* namespace, from_name sets that namespace to c.
C10_QuotedSpan ==
    (/\ StrCall
     /\ Len(call.namespaces) = 1
     /\ Len(call.name) >= 2
     /\ call.name[1] = call.quote_char
     /\ call.name[Len(call.name)] = call.quote_char
     /\ \A i \in 2..(Len(call.name) - 1) : call.name[i] # call.quote_char)
    => /\ ret.out = "ok"
       /\ Returned = <<<<call.namespaces[1], SubSeq(call.name, 2, Len(call.name) - 1)>>>>

====
